---- MODULE Spec2Model ----
(***************************************************************************)
(* LSB image steganography codec (src/steganography.py): encode_image,     *)
(* verify_encoding, decode_image, analyze_image_capacity and the command   *)
(* line entry point, over a small file system of image files; and the page *)
(* of src/app.py, which stages uploads in temporary files for those calls. *)
(*                                                                         *)
(* A text is a sequence of code points, a bit string a sequence of 0/1.    *)
(* An image file is a record [kind, mode, width, height, data, palette],   *)
(* data being the pixels in row-major order, each a tuple of band values.  *)
(***************************************************************************)
EXTENDS Integers, Sequences, FiniteSets, TLC

\* Longest message of the enumerated alphabet.
MaxLen == 2
\* Number of encode_image calls in one behaviour.
MaxEncodes == 1

\* steganography.py:230  min(len(binary_data), 50000)
DecodeBitLimit == 50000

\* steganography.py:30  message += "###"
DELIMITER == <<35, 35, 35>>

Min(a, b) == IF a < b THEN a ELSE b

\* A list built element by element: the function f on 1..n as a sequence value.
List(f, n) == SubSeq(f, 1, n)

(***************************************************************************)
(* Values returned to the caller.                                          *)
(***************************************************************************)
PyNone == [kind |-> "None", val |-> 0]
PyBool(b) == [kind |-> "bool", val |-> b]
PyStr(s) == [kind |-> "str", val |-> s]
PyDict(d) == [kind |-> "dict", val |-> d]

\* One print() of the program: a tag and up to two numbers.
Line(msg, a, b) == [msg |-> msg, a |-> a, b |-> b]

(***************************************************************************)
(* Files and PIL images.                                                   *)
(***************************************************************************)
Paths == {"carrier", "stego"}

NoFile == [kind |-> "absent"]
NotAnImage == [kind |-> "bytes"]

Bands(mode) ==
    CASE mode = "L" -> 1
      [] mode = "P" -> 1
      [] mode = "RGB" -> 3
      [] mode = "RGBA" -> 4

MkImage(mode, width, height, data, palette) ==
    [kind |-> "image", mode |-> mode, width |-> width, height |-> height,
     data |-> data, palette |-> palette]

\* Image.open(path) raises unless the file exists and holds an image.
CanOpen(file) == file.kind = "image"

\* image.getpixel((col, row)): an int for a single-band image, else a tuple.
PixelIndex(image, col, row) == row * image.width + col + 1
PixelIsInt(image) == Bands(image.mode) = 1

\* image.convert('RGB')
ConvertPixelRGB(image, px) ==
    CASE image.mode = "RGB" -> px
      [] image.mode = "RGBA" -> SubSeq(px, 1, 3)
      [] image.mode = "L" -> <<px[1], px[1], px[1]>>
      [] image.mode = "P" -> image.palette[px[1] + 1]

ConvertRGB(image) ==
    MkImage("RGB", image.width, image.height,
            List([p \in 1..Len(image.data) |-> ConvertPixelRGB(image, image.data[p])],
                 Len(image.data)),
            <<>>)

(***************************************************************************)
(* Text to bits and back.                                                  *)
(***************************************************************************)
RECURSIVE Bin(_)
Bin(n) == IF n < 2 THEN <<n>> ELSE Append(Bin(n \div 2), n % 2)

\* format(ord(i), "08b"): binary digits, zero-padded to a width of at least 8.
Format08b(n) ==
    LET b == Bin(n)
    IN  IF Len(b) >= 8 THEN b ELSE [k \in 1..(8 - Len(b)) |-> 0] \o b

\* ''.join(parts[lo..hi])
RECURSIVE Join(_, _, _)
Join(parts, lo, hi) ==
    IF lo > hi THEN <<>>
    ELSE IF lo = hi THEN parts[lo]
    ELSE LET mid == (lo + hi) \div 2
         IN  Join(parts, lo, mid) \o Join(parts, mid + 1, hi)

\* ''.join([format(ord(i), "08b") for i in message])
BinaryMessage(message) ==
    Join([i \in 1..Len(message) |-> Format08b(message[i])], 1, Len(message))

\* int(byte, 2) for the 8 bits that start at position `at` (1-based).
IntBase2(b, at) ==
    128 * b[at] + 64 * b[at + 1] + 32 * b[at + 2] + 16 * b[at + 3]
    + 8 * b[at + 4] + 4 * b[at + 5] + 2 * b[at + 6] + b[at + 7]

\* chr(int(binary_data[i:i+8], 2)) for the j-th whole byte, j >= 1.
CharAt(binary_data, j) == IntBase2(binary_data, 8 * j - 7)

EndsWithDelimiter(chars, j) ==
    /\ j >= 3
    /\ <<chars[j - 2], chars[j - 1], chars[j]>> = DELIMITER

LastDelimiter(chars) ==
    LET hits == {j \in 1..Len(chars) : EndsWithDelimiter(chars, j)}
    IN  IF hits = {} THEN 0 ELSE CHOOSE j \in hits : \A k \in hits : j >= k

\* The first position at which the text read so far ends with "###", 0 if none.
FirstDelimiter(chars) ==
    LET hits == {j \in 1..Len(chars) : EndsWithDelimiter(chars, j)}
    IN  IF hits = {} THEN 0 ELSE CHOOSE j \in hits : \A k \in hits : j <= k

(***************************************************************************)
(* encode_image                                                            *)
(***************************************************************************)
SetLSBKeepsLowOnly(value, bit) == (value % 2) + bit - ((value % 2) * bit)

\* (value & ~1) | bit
SetLSB(value, bit) == value - (value % 2) + bit

\* Lines 70-74: the channel is rewritten only when its low bit differs.
PutBit(value, bit) == IF value % 2 # bit THEN SetLSB(value, bit) ELSE value

\* Lines 68-76: the channels of one pixel, `index` (0-based) being the next
\* unconsumed bit on entry; a channel is written while index < len(binary_message).
EncodePixel(pixel, index, binary_message) ==
    List([i \in 1..Len(pixel) |->
            IF i <= Min(3, Len(pixel)) /\ index + (i - 1) < Len(binary_message)
            THEN PutBit(pixel[i], binary_message[index + i])
            ELSE pixel[i]], Len(pixel))

\* The value of `index` when the row-major walk reaches pixel p (1-based):
\* every earlier pixel consumed min(3, len(pixel)) bits.
IndexAt(image, p) == (p - 1) * Min(3, Bands(image.mode))

\* Lines 45-88: a pixel is read and rewritten while index < len(binary_message).
PixelVisited(image, p, binary_message) == IndexAt(image, p) < Len(binary_message)

EncodedData(image, binary_message) ==
    List([p \in 1..Len(image.data) |->
            IF PixelVisited(image, p, binary_message)
            THEN EncodePixel(image.data[p], IndexAt(image, p), binary_message)
            ELSE image.data[p]], Len(image.data))

ModifiedPixelsChangedOnly(image, binary_message) ==
    Cardinality({p \in 1..Len(image.data) :
        /\ PixelVisited(image, p, binary_message)
        /\ EncodePixel(image.data[p], IndexAt(image, p), binary_message) # image.data[p]})

\* modified_pixels: one per pixel visited.
ModifiedPixels(image, binary_message) ==
    Cardinality({p \in 1..Len(image.data) : PixelVisited(image, p, binary_message)})

\* Line 34: width * height * 3
MaxCapacity(image) == image.width * image.height * 3

\* Line 36: the character count printed with the "too large" error.
ReportedMaxChars(image) == MaxCapacity(image) \div 8

TooLargeAtCapacity(image, binary_message) == Len(binary_message) >= MaxCapacity(image)

\* Line 35: the message with its delimiter does not fit.
TooLarge(image, binary_message) == Len(binary_message) > MaxCapacity(image)

(***************************************************************************)
(* Reading the low bits back.                                              *)
(***************************************************************************)
\* Bits a reader takes from one pixel: 1 from an int pixel, else min(3, len).
BitsPerPixel(image) == IF PixelIsInt(image) THEN 1 ELSE Min(3, Bands(image.mode))

\* The low bits of the image in row-major, channel order.
LsbStream(image) ==
    LET bpp == BitsPerPixel(image)
    IN  List([k \in 1..(Len(image.data) * bpp) |->
                 image.data[((k - 1) \div bpp) + 1][((k - 1) % bpp) + 1] % 2],
             Len(image.data) * bpp)

\* The whole bytes of a bit string as characters, the first n of them.
Chars(binary_data, n) == List([j \in 1..n |-> CharAt(binary_data, j)], n)

\* verify_encoding, lines 124-176.
verify_encoding(encoded_image, original_message) ==
    LET total_bits_needed == (Len(original_message) + 3) * 8
        stream == LsbStream(encoded_image)
        binary_data == SubSeq(stream, 1, Min(total_bits_needed, Len(stream)))
        chars == Chars(binary_data, Len(binary_data) \div 8)
        hit == FirstDelimiter(chars)
    IN  IF hit > 0
        THEN SubSeq(chars, 1, hit - 3) = original_message
        ELSE FALSE

IsPrintable(c) == 32 <= c /\ c <= 126

\* Line 230: the bytes the decoding loop converts.
DecodedBytes(binary_data) ==
    Min((Min(Len(binary_data), DecodeBitLimit) + 7) \div 8, Len(binary_data) \div 8)

\* Lines 246-254: the fallback when no delimiter was read.
Fallback(decoded_message) ==
    LET printable_chars == SelectSeq(decoded_message, IsPrintable)
    IN  IF Len(decoded_message) > 2
           /\ 2 * Len(printable_chars) > Len(decoded_message)
        THEN PyStr(printable_chars)
        ELSE PyNone

DecodeBitsEmptyIsNone(binary_data) ==
    LET chars == Chars(binary_data, DecodedBytes(binary_data))
        hit == FirstDelimiter(chars)
    IN  IF hit > 3 THEN PyStr(SubSeq(chars, 1, hit - 3)) ELSE Fallback(chars)

\* Lines 226-254: the characters of the extracted bits, up to the delimiter.
DecodeBits(binary_data) ==
    LET chars == Chars(binary_data, DecodedBytes(binary_data))
        hit == FirstDelimiter(chars)
    IN  IF hit > 0 THEN PyStr(SubSeq(chars, 1, hit - 3)) ELSE Fallback(chars)

(***************************************************************************)
(* The three entry points: each yields the file system after the call, the *)
(* value returned and the lines printed.                                   *)
(***************************************************************************)
Outcome(files, value, printed) == [fs |-> files, ret |-> value, stdout |-> printed]

SavePNGOverCarrier(files, output_path, encoded) ==
    [p \in Paths |->
        IF p = output_path \/ p = "carrier" THEN ConvertRGB(encoded) ELSE files[p]]

\* Line 96: encoded.convert('RGB').save(output_path, format='PNG'); PNG is
\* lossless, so the file holds the pixels as they are.
SavePNG(files, output_path, encoded) ==
    [files EXCEPT ![output_path] = ConvertRGB(encoded)]

\* Lines 40-41, 98-104.
EncodeReport(image, message, binary_message, verification_success) ==
    << Line("Encoding message", Len(message), Len(binary_message)),
       Line("Image capacity", MaxCapacity(image), MaxCapacity(image) \div 8),
       Line("Message encoded successfully", ModifiedPixels(image, binary_message), 0),
       Line("Saved as PNG", 0, 0),
       IF verification_success
       THEN Line("Verification successful", 0, 0)
       ELSE Line("Warning: Verification failed", 0, 0) >>

encode_image_checked(files, image_path, message, output_path) ==
    IF ~CanOpen(files[image_path])
    THEN Outcome(files, PyBool(FALSE), <<Line("Error encoding message", 0, 0)>>)
    ELSE
      LET opened == files[image_path]
          converting == opened.mode # "RGB"
          image == IF converting THEN ConvertRGB(opened) ELSE opened
          notice == IF converting
                    THEN <<Line("Converting image to RGB", 0, 0)>>
                    ELSE <<>>
          binary_message == BinaryMessage(message \o DELIMITER)
      IN  IF TooLarge(image, binary_message)
          THEN Outcome(files, PyBool(FALSE),
                       notice \o <<Line("Error: Message too large",
                                        ReportedMaxChars(image), Len(message))>>)
          ELSE
            LET encoded == [image EXCEPT !.data = EncodedData(image, binary_message)]
                verification_success == verify_encoding(encoded, message)
            IN  IF verification_success
                THEN Outcome(SavePNG(files, output_path, encoded), PyBool(TRUE),
                             notice \o EncodeReport(image, message, binary_message,
                                                    verification_success))
                ELSE Outcome(files, PyBool(FALSE),
                             notice \o <<Line("Warning: Verification failed", 0, 0)>>)

encode_image(files, image_path, message, output_path) ==
    IF ~CanOpen(files[image_path])
    THEN Outcome(files, PyBool(FALSE), <<Line("Error encoding message", 0, 0)>>)
    ELSE
      LET opened == files[image_path]
          converting == opened.mode # "RGB"
          image == IF converting THEN ConvertRGB(opened) ELSE opened
          notice == IF converting
                    THEN <<Line("Converting image to RGB", 0, 0)>>
                    ELSE <<>>
          binary_message == BinaryMessage(message \o DELIMITER)
      IN  IF TooLarge(image, binary_message)
          THEN Outcome(files, PyBool(FALSE),
                       notice \o <<Line("Error: Message too large",
                                        ReportedMaxChars(image), Len(message))>>)
          ELSE
            LET encoded == [image EXCEPT !.data = EncodedData(image, binary_message)]
                verification_success == verify_encoding(encoded, message)
            IN  Outcome(SavePNG(files, output_path, encoded), PyBool(TRUE),
                        notice \o EncodeReport(image, message, binary_message,
                                               verification_success))

decode_image(files, image_path) ==
    IF ~CanOpen(files[image_path])
    THEN Outcome(files, PyNone, <<Line("Error decoding message", 0, 0)>>)
    ELSE
      LET binary_data == LsbStream(files[image_path])
          extracted == Line("Extracted bits", Len(binary_data), 0)
          result == DecodeBits(binary_data)
      IN  IF Len(binary_data) < 8
          THEN Outcome(files, PyNone, <<extracted, Line("Not enough bits", 0, 0)>>)
          ELSE IF result.kind = "None"
          THEN Outcome(files, PyNone,
                       <<extracted, Line("No valid hidden message found", 0, 0)>>)
          ELSE Outcome(files, result, <<extracted>>)

\* Lines 277-283.
UsableChars(image) == ((image.width * image.height * 3) \div 8) - 3

analyze_image_capacity_zero_on_error(files, image_path) ==
    IF ~CanOpen(files[image_path])
    THEN Outcome(files,
                 PyDict([image_dimensions |-> <<0, 0>>, max_bits |-> 0,
                         max_characters |-> 0]),
                 <<Line("Error analyzing image capacity", 0, 0)>>)
    ELSE
      LET image == files[image_path]
      IN  Outcome(files,
                  PyDict([image_dimensions |-> <<image.width, image.height>>,
                          max_bits |-> image.width * image.height * 3,
                          max_characters |-> UsableChars(image)]),
                  <<>>)

\* The file size is storage metadata and is left out of the dictionary.
analyze_image_capacity(files, image_path) ==
    IF ~CanOpen(files[image_path])
    THEN Outcome(files, PyNone, <<Line("Error analyzing image capacity", 0, 0)>>)
    ELSE
      LET image == files[image_path]
      IN  Outcome(files,
                  PyDict([image_dimensions |-> <<image.width, image.height>>,
                          max_bits |-> image.width * image.height * 3,
                          max_characters |-> UsableChars(image)]),
                  <<>>)

(***************************************************************************)
(* Command line, lines 298-326.  argv[1] of the model is sys.argv[0].      *)
(***************************************************************************)
Usage == <<Line("Usage:", 0, 0)>>

\* str.lower() on the action words the model passes.
Lower(s) ==
    CASE s = "ENCODE" -> "encode"
      [] s = "Decode" -> "decode"
      [] OTHER -> s

\* `if message:` is false for None and for the empty string.
Truthy(value) == value.kind = "str" /\ value.val # <<>>

\* The process's exit status is the value of the outcome.
main(files, argv) ==
    IF Len(argv) < 2
    THEN Outcome(files, [kind |-> "exit", val |-> 1], Usage)
    ELSE
      LET action == Lower(argv[2])
      IN  IF action = "encode" /\ Len(argv) >= 5
          THEN LET r == encode_image(files, argv[3], argv[5], argv[4])
               IN  Outcome(r.fs, [kind |-> "exit", val |-> 0], r.stdout)
          ELSE IF action = "decode" /\ Len(argv) >= 3
          THEN LET r == decode_image(files, argv[3])
               IN  Outcome(r.fs, [kind |-> "exit", val |-> 0],
                           IF Truthy(r.ret)
                           THEN r.stdout \o <<Line("Decoded message", Len(r.ret.val), 0)>>
                           ELSE r.stdout)
          ELSE Outcome(files, [kind |-> "exit", val |-> 0],
                       <<Line("Invalid arguments", 0, 0)>> \o Usage)

(***************************************************************************)
(* Inputs: carrier files, messages, command lines.                         *)
(***************************************************************************)
\* Channel value of band i of pixel p under a fill.
Sample(fill, p, i) ==
    CASE fill = "full" -> 255
      [] fill = "zero" -> 0
      [] fill = "ramp" -> (17 * p + 7 * i + 3) % 256

RGBImage(size, fill) ==
    MkImage("RGB", size[1], size[2],
            [p \in 1..(size[1] * size[2]) |-> [i \in 1..3 |-> Sample(fill, p, i)]],
            <<>>)

GrayImage(size, fill) ==
    MkImage("L", size[1], size[2],
            [p \in 1..(size[1] * size[2]) |-> <<Sample(fill, p, 1)>>], <<>>)

RGBAImage(size, fill) ==
    MkImage("RGBA", size[1], size[2],
            [p \in 1..(size[1] * size[2]) |-> [i \in 1..4 |-> Sample(fill, p, i)]],
            <<>>)

Palette == << <<0, 0, 0>>, <<255, 255, 255>>, <<10, 21, 32>>, <<201, 100, 7>> >>

IndexedImage(size) ==
    MkImage("P", size[1], size[2],
            [p \in 1..(size[1] * size[2]) |-> <<p % Len(Palette)>>], Palette)

\* <<width, height>>: 3, 24, 33, 42, 48 and 300 writable bits.
Sizes == { <<1, 1>>, <<4, 2>>, <<11, 1>>, <<2, 7>>, <<4, 4>>, <<10, 10>> }
GraySizes == { <<4, 2>>, <<2, 7>> }

Carriers ==
    {RGBImage(size, "ramp") : size \in Sizes}
    \cup {GrayImage(size, "ramp") : size \in GraySizes}
    \cup {RGBImage(<<2, 7>>, "full"), RGBAImage(<<2, 7>>, "ramp"), IndexedImage(<<2, 7>>)}

\* '#', 'a'
Alphabet == {35, 97}

RECURSIVE SeqsUpTo(_, _)
SeqsUpTo(S, n) ==
    IF n = 0 THEN {<<>>}
    ELSE LET shorter == SeqsUpTo(S, n - 1)
         IN  shorter \cup {Append(m, c) : m \in {t \in shorter : Len(t) = n - 1}, c \in S}

\* "hi", "\xff\x00a"
NamedMessages == { <<104, 105>>, <<255, 0, 97>> }

Messages == SeqsUpTo(Alphabet, MaxLen) \cup NamedMessages

Prog == "steganography.py"

Argvs ==
    { <<Prog>>, <<Prog, "decode">>, <<Prog, "frobnicate">>,
      <<Prog, "encode", "carrier", "stego">>,
      <<Prog, "ENCODE", "carrier", "stego", <<>> >>,
      <<Prog, "Decode", "stego">> }

(***************************************************************************)
(* State.                                                                  *)
(*   fs           the file at each path                                    *)
(*   call         the last call made and its arguments                     *)
(*   ret          the value it returned (for main: the exit status)        *)
(*   stdout       the lines it printed                                     *)
(*   before       the file system when that call began                     *)
(*   last_encode  the last encode_image call: message, paths, result       *)
(*   encodes      encode_image calls made so far                           *)
(***************************************************************************)
VARIABLES fs, call, ret, stdout, before, last_encode, encodes

vars == <<fs, call, ret, stdout, before, last_encode, encodes>>

Call(op, image_path, message, output_path, argv) ==
    [op |-> op, image_path |-> image_path, message |-> message,
     output_path |-> output_path, argv |-> argv]

NoEncode == [done |-> FALSE, ok |-> FALSE, image_path |-> "", message |-> <<>>,
             output_path |-> "", mode |-> ""]

\* The record of an encode_image call made in file system `files`.
Encoded(files, image_path, message, output_path, ok) ==
    [done |-> TRUE, ok |-> ok,
     image_path |-> image_path, message |-> message, output_path |-> output_path,
     mode |-> IF CanOpen(files[image_path]) THEN files[image_path].mode ELSE ""]

Init ==
    /\ \E file \in Carriers \cup {NoFile, NotAnImage} :
          fs = [p \in Paths |-> IF p = "carrier" THEN file ELSE NoFile]
    /\ call = Call("none", "", <<>>, "", <<>>)
    /\ ret = PyNone
    /\ stdout = <<>>
    /\ before = fs
    /\ last_encode = NoEncode
    /\ encodes = 0

\* The call's outcome r becomes the state; `before` keeps the files it found.
Finish(op_call, r) ==
    /\ fs' = r.fs
    /\ ret' = r.ret
    /\ stdout' = r.stdout
    /\ call' = op_call
    /\ before' = fs

EncodeImage(image_path, message, output_path) ==
    /\ encodes < MaxEncodes
    /\ \E r \in {encode_image(fs, image_path, message, output_path)} :
          /\ Finish(Call("encode_image", image_path, message, output_path, <<>>), r)
          /\ last_encode' = Encoded(fs, image_path, message, output_path, r.ret.val)
    /\ encodes' = encodes + 1

DecodeImage(image_path) ==
    /\ \E r \in {decode_image(fs, image_path)} :
          Finish(Call("decode_image", image_path, <<>>, "", <<>>), r)
    /\ UNCHANGED <<last_encode, encodes>>

AnalyzeImageCapacity(image_path) ==
    /\ \E r \in {analyze_image_capacity(fs, image_path)} :
          Finish(Call("analyze_image_capacity", image_path, <<>>, "", <<>>), r)
    /\ UNCHANGED <<last_encode, encodes>>

\* main reaches encode_image exactly when it is given the action and 3 operands.
RunsEncode(argv) == Len(argv) >= 5 /\ Lower(argv[2]) = "encode"

HasLine(lines, msg) == \E i \in 1..Len(lines) : lines[i].msg = msg

Main(argv) ==
    /\ RunsEncode(argv) => encodes < MaxEncodes
    /\ \E r \in {main(fs, argv)} :
          /\ Finish(Call("main", "", <<>>, "", argv), r)
          /\ IF RunsEncode(argv)
             THEN /\ encodes' = encodes + 1
                  /\ last_encode' =
                        Encoded(fs, argv[3], argv[5], argv[4],
                                HasLine(r.stdout, "Message encoded successfully"))
             ELSE UNCHANGED <<last_encode, encodes>>

Next ==
    \/ \E message \in Messages, output_path \in Paths :
          EncodeImage("carrier", message, output_path)
    \/ \E image_path \in Paths : DecodeImage(image_path)
    \/ \E image_path \in Paths : AnalyzeImageCapacity(image_path)
    \/ \E argv \in Argvs : Main(argv)

Spec == Init /\ [][Next]_vars

(***************************************************************************)
(* Images and messages that reach past the decoder's 50,000-bit limit.     *)
(***************************************************************************)
\* Characters of the longest message past the last one the limit lets through.
MaxBeyond == 2

\* 16 * 1042 * 3 = 50016 bits: room for DecodeBitLimit \div 8 + 2 characters.
BigSize == <<16, 1042>>

BigCarriers == {RGBImage(BigSize, "ramp"), RGBImage(BigSize, "full")}

\* Lengths around DecodeBitLimit \div 8 - 3, the longest message whose
\* delimiter ends within the limit.
LongLengths ==
    ((DecodeBitLimit \div 8) - 4) .. ((DecodeBitLimit \div 8) - 3 + MaxBeyond)

LongMessages == {[i \in 1..n |-> c] : n \in LongLengths, c \in {97, 0, 255}}

InitCap ==
    /\ \E file \in BigCarriers :
          fs = [p \in Paths |-> IF p = "carrier" THEN file ELSE NoFile]
    /\ call = Call("none", "", <<>>, "", <<>>)
    /\ ret = PyNone
    /\ stdout = <<>>
    /\ before = fs
    /\ last_encode = NoEncode
    /\ encodes = 0

NextCap ==
    \/ \E message \in LongMessages : EncodeImage("carrier", message, "stego")
    \/ \E image_path \in Paths : DecodeImage(image_path)
    \/ \E image_path \in Paths : AnalyzeImageCapacity(image_path)

SpecCap == InitCap /\ [][NextCap]_vars

(***************************************************************************)
(* Properties.                                                             *)
(***************************************************************************)
Returned(op) == call.op = op
ReturnedTrue == ret.kind = "bool" /\ ret.val = TRUE
ReturnedFalse == ret.kind = "bool" /\ ret.val = FALSE
ReturnedStr(text) == ret.kind = "str" /\ ret.val = text

\* The first printed line with the tag, or a line of -1s when there is none.
Printed(msg) ==
    LET at == {i \in 1..Len(stdout) : stdout[i].msg = msg}
    IN  IF at = {} THEN Line("", -1, -1)
        ELSE stdout[CHOOSE i \in at : \A k \in at : i <= k]

SingleByte(text) == \A i \in 1..Len(text) : text[i] \in 0..255

\* The last call decoded the file that the last encode_image call wrote.
DecodedLastEncode ==
    /\ Returned("decode_image")
    /\ last_encode.done /\ last_encode.ok
    /\ call.image_path = last_encode.output_path

\* C1: decode_image of the image written by a successful encode_image of a
\* message of code points 0..255 returns exactly that message.
C1_RoundTrip ==
    (DecodedLastEncode /\ SingleByte(last_encode.message))
        => ReturnedStr(last_encode.message)

\* C2: with C the usable character count analyze_image_capacity reports for
\* the image, encode_image of a message of length C returns True, and of a
\* message of length C + 1 returns False and writes no file.
C2_CapacityBoundary ==
    (Returned("encode_image") /\ CanOpen(before[call.image_path])) =>
        LET C == analyze_image_capacity(before, call.image_path).ret.val.max_characters
        IN  /\ Len(call.message) = C => ReturnedTrue
            /\ Len(call.message) = C + 1 => (ReturnedFalse /\ fs = before)

\* A non-empty message that exactly fills the image (required = available bits)
\* was encoded.
C2_Witness ==
    /\ Returned("encode_image") /\ ReturnedTrue
    /\ call.message # <<>>
    /\ (Len(call.message) + 3) * 8 = MaxCapacity(before[call.image_path])
    /\ Len(call.message) =
          analyze_image_capacity(before, call.image_path).ret.val.max_characters

EmptyBits == BinaryMessage(DELIMITER)

\* C3: in an image that can hold the delimiter, encode_image of the empty
\* message returns True and the output's first 24 low bits are the delimiter's;
\* decode_image of that output returns the empty string, which is not None.
C3_EmptyMessage ==
    /\ (/\ Returned("encode_image") /\ call.message = <<>>
        /\ CanOpen(before[call.image_path])
        /\ MaxCapacity(before[call.image_path]) >= Len(EmptyBits))
         => /\ ReturnedTrue
            /\ SubSeq(LsbStream(fs[call.output_path]), 1, Len(EmptyBits)) = EmptyBits
            /\ Printed("Encoding message").b = Len(EmptyBits)
    /\ (DecodedLastEncode /\ last_encode.message = <<>>)
         => (ReturnedStr(<<>>) /\ ret.kind # "None")

C3_Witness == DecodedLastEncode /\ last_encode.message = <<>> /\ ret.kind = "str"

\* C4 as claimed: after encode_image returns, the file at the input path is
\* what it was before the call, whatever the output path.
C4_NonMutation ==
    Returned("encode_image") => fs[call.image_path] = before[call.image_path]

\* C4 as amended: after encode_image returns, the file at the input path is
\* what it was before the call, unless the output path is the input path and
\* the call returned True.
C4_NonMutationUnlessOverwritten ==
    (/\ Returned("encode_image")
     /\ ~(call.output_path = call.image_path /\ ReturnedTrue))
        => fs[call.image_path] = before[call.image_path]

C4_Witness ==
    /\ Returned("encode_image") /\ ReturnedTrue
    /\ call.output_path # call.image_path
    /\ fs[call.output_path] # before[call.image_path]
    /\ fs[call.image_path] = before[call.image_path]

\* C5: on a path that cannot be opened as an image, encode_image returns
\* False, decode_image and analyze_image_capacity return None, and the file
\* system is left as it was.
C5_UnreadableFailsClosed ==
    (/\ call.op \in {"encode_image", "decode_image", "analyze_image_capacity"}
     /\ ~CanOpen(before[call.image_path])) =>
        /\ Returned("encode_image") => ReturnedFalse
        /\ Returned("decode_image") => ret.kind = "None"
        /\ Returned("analyze_image_capacity") => ret.kind = "None"
        /\ fs = before

C5_Witness ==
    /\ Returned("analyze_image_capacity")
    /\ before[call.image_path] = NotAnImage
    /\ ret.kind = "None"

\* The command line is one the program documents no action for.
InvalidArgs(argv) ==
    \/ Len(argv) < 2
    \/ /\ Len(argv) >= 2
       /\ LET action == Lower(argv[2])
          IN  \/ action \notin {"encode", "decode"}
              \/ action = "encode" /\ Len(argv) < 5
              \/ action = "decode" /\ Len(argv) < 3

\* C6: every run with invalid or missing arguments prints the usage text and
\* ends with a non-zero exit status.
C6_UsageAndNonZeroExit ==
    (Returned("main") /\ InvalidArgs(call.argv))
        => (Printed("Usage:").msg = "Usage:" /\ ret.val # 0)

NoHash(text) == \A i \in 1..Len(text) : text[i] # 35

\* C7: a message whose delimiter ends beyond bit 50,000 of the image is still
\* returned exactly by decode_image.
C7_CapFallback ==
    (/\ DecodedLastEncode
     /\ (Len(last_encode.message) + 3) * 8 > DecodeBitLimit
     /\ NoHash(last_encode.message))
        => ReturnedStr(last_encode.message)

\* encode_image accepts messages of n characters for the image.
Accepts(image, n) == ~TooLarge(image, BinaryMessage([i \in 1..n |-> 97] \o DELIMITER))

\* C8: when encode_image refuses a message as too large for an image that can
\* hold some message, the maximum it prints is the largest length it accepts.
C8_ReportedMaxIsAccepted ==
    (/\ Returned("encode_image")
     /\ Printed("Error: Message too large").msg # ""
     /\ Accepts(ConvertRGB(before[call.image_path]), 0)) =>
        LET image == ConvertRGB(before[call.image_path])
            reported == Printed("Error: Message too large").a
        IN  Accepts(image, reported) /\ ~Accepts(image, reported + 1)

CeilDiv(a, b) == (a + b - 1) \div b

Hi == <<104, 105>>

IsTenByTen(file) == CanOpen(file) /\ file.width = 10 /\ file.height = 10

\* C9: a successful encode_image of m reports ceil(((len(m) + 3) * 8) / 3)
\* modified pixels; "hi" in a 10x10 image is 40 bits, reports 14 pixels and
\* decodes back to "hi".
C9_PixelsModified ==
    /\ (Returned("encode_image") /\ ReturnedTrue)
         => Printed("Message encoded successfully").a
               = CeilDiv((Len(call.message) + 3) * 8, 3)
    /\ (/\ Returned("encode_image") /\ call.message = Hi
        /\ IsTenByTen(before[call.image_path]))
         => /\ ReturnedTrue
            /\ Printed("Encoding message").b = 40
            /\ Printed("Message encoded successfully").a = 14
    /\ (/\ DecodedLastEncode /\ last_encode.message = Hi
        /\ IsTenByTen(fs[call.image_path]))
         => ReturnedStr(Hi)

C9_Witness ==
    /\ Returned("encode_image") /\ ReturnedTrue
    /\ call.message = Hi
    /\ IsTenByTen(before[call.image_path])
    /\ Printed("Message encoded successfully").a = 14

\* C10: encode_image into a grayscale or indexed carrier that has room
\* converts it (a notice, not an error), returns True and writes a
\* three-channel image, and decode_image of that image returns the message.
C10_FormatResilience ==
    /\ (/\ Returned("encode_image")
        /\ CanOpen(before[call.image_path])
        /\ before[call.image_path].mode \in {"L", "P"}
        /\ (Len(call.message) + 3) * 8 <= MaxCapacity(before[call.image_path]))
         => /\ ReturnedTrue
            /\ Printed("Converting image to RGB").msg # ""
            /\ Printed("Error encoding message").msg = ""
            /\ Bands(fs[call.output_path].mode) = 3
    /\ (DecodedLastEncode /\ last_encode.mode \in {"L", "P"})
         => ReturnedStr(last_encode.message)

\* The bit stream encode_image writes for the message.
StreamOf(message) == BinaryMessage(message \o DELIMITER)

\* The last call was encode_image on a readable image the message fits in.
EncodedFitting ==
    /\ Returned("encode_image")
    /\ CanOpen(before[call.image_path])
    /\ ~TooLarge(ConvertRGB(before[call.image_path]), StreamOf(call.message))

VerificationFailed == Printed("Warning: Verification failed").msg # ""
VerificationPassed == Printed("Verification successful").msg # ""

\* C11: whenever the message fits and the image is readable, encode_image
\* returns True and writes the encoded image to the output path, whether
\* verify_encoding returned True or False; the self-check only selects which
\* of the two verification lines is printed.
C11_SelfCheckDiagnosticOnly ==
    EncodedFitting =>
        /\ ReturnedTrue
        /\ CanOpen(fs[call.output_path])
        /\ fs[call.output_path].data =
              EncodedData(ConvertRGB(before[call.image_path]), StreamOf(call.message))
        /\ VerificationPassed <=> verify_encoding(fs[call.output_path], call.message)
        /\ VerificationFailed <=> ~verify_encoding(fs[call.output_path], call.message)

\* An encode whose self-check failed still returned True and wrote the output.
C11_Witness ==
    /\ EncodedFitting /\ ReturnedTrue
    /\ VerificationFailed
    /\ ~verify_encoding(fs[call.output_path], call.message)
    /\ call.output_path # call.image_path
    /\ before[call.output_path] = NoFile
    /\ CanOpen(fs[call.output_path])

\* C12: for the image a successful encode_image of m wrote, verify_encoding
\* of that image and m is True exactly when decode_image of it returns m.
C12_SelfCheckAgreesWithDecoder ==
    DecodedLastEncode =>
        (verify_encoding(fs[call.image_path], last_encode.message)
            <=> ReturnedStr(last_encode.message))

\* Bit k (0-based) of the stream of a text: characters in order, each its 8
\* bits from the most significant down.
StreamBit(text, k) == (text[(k \div 8) + 1] \div (2 ^ (7 - (k % 8)))) % 2

\* Channel k mod 3 of the pixel at row-major index k div 3.
ChannelAt(image, k) == image.data[(k \div 3) + 1][(k % 3) + 1]

\* C13: after a successful encode_image, bit k of the stream (message then
\* delimiter, most significant bit of each character first) is the low bit of
\* channel k mod 3 of pixel k div 3 of the output; every written channel keeps
\* the upper seven bits of the carrier's RGB value; and every channel at or
\* after the stream length has the carrier's RGB value.
C13_BitPlacementAndFrame ==
    (Returned("encode_image") /\ ReturnedTrue) =>
        LET carrier == ConvertRGB(before[call.image_path])
            out == fs[call.output_path]
            text == call.message \o DELIMITER
        IN  /\ out.mode = "RGB"
            /\ <<out.width, out.height>> = <<carrier.width, carrier.height>>
            /\ Len(out.data) = Len(carrier.data)
            /\ \A k \in 0..(3 * Len(carrier.data) - 1) :
                  IF k < 8 * Len(text)
                  THEN /\ ChannelAt(out, k) % 2 = StreamBit(text, k)
                       /\ ChannelAt(out, k) \div 2 = ChannelAt(carrier, k) \div 2
                  ELSE ChannelAt(out, k) = ChannelAt(carrier, k)

\* A successful encode that changed some written channel and left channels
\* after the stream as they were.
C13_Witness ==
    /\ Returned("encode_image") /\ ReturnedTrue
    /\ call.message # <<>>
    /\ LET carrier == ConvertRGB(before[call.image_path])
           out == fs[call.output_path]
           n == 8 * (Len(call.message) + 3)
       IN  /\ n < 3 * Len(carrier.data)
           /\ \E k \in 0..(n - 1) : ChannelAt(out, k) # ChannelAt(carrier, k)
           /\ \E k \in 0..(n - 1) : ChannelAt(out, k) = ChannelAt(carrier, k)
           /\ ChannelAt(out, n) = ChannelAt(carrier, n)

\* The characters decode_image converts from the low bits of an image.
Candidate(image) ==
    LET binary_data == LsbStream(image)
    IN  Chars(binary_data, DecodedBytes(binary_data))

\* Position j is the first at which the characters read end with "###".
IsFirstDelimiter(chars, j) ==
    /\ EndsWithDelimiter(chars, j)
    /\ \A k \in 1..(j - 1) : ~EndsWithDelimiter(chars, k)

Refills == {"zeros", "ones", "flipped"}

\* The image with the low bit of every stream position from `from` (0-based)
\* on replaced: cleared, set, or inverted.
Refill(image, from, how) ==
    LET bpp == BitsPerPixel(image)
        bit(v) == CASE how = "zeros" -> 0
                    [] how = "ones" -> 1
                    [] how = "flipped" -> 1 - (v % 2)
    IN  [image EXCEPT !.data =
            [p \in 1..Len(image.data) |->
                [i \in 1..Len(image.data[p]) |->
                    IF i <= bpp /\ (p - 1) * bpp + (i - 1) >= from
                    THEN SetLSB(image.data[p][i], bit(image.data[p][i]))
                    ELSE image.data[p][i]]]]

\* C14: when the characters decode_image reads contain "###", it returns
\* exactly the characters before the first position at which the last three
\* characters read are "###", and it returns the same for every image that
\* differs only in low bits after that position.
C14_DelimiterShortCircuit ==
    (Returned("decode_image") /\ CanOpen(before[call.image_path])) =>
        LET image == before[call.image_path]
            chars == Candidate(image)
        IN  \A j \in 1..Len(chars) :
              IsFirstDelimiter(chars, j) =>
                /\ ReturnedStr(SubSeq(chars, 1, j - 3))
                /\ \A how \in Refills :
                      decode_image([before EXCEPT ![call.image_path] =
                                        Refill(image, 8 * j, how)],
                                   call.image_path).ret = ret

\* decode_image returned the text before the first of two positions at which
\* the characters read end with "###", from an image with low bits after it.
C14_Witness ==
    /\ Returned("decode_image") /\ CanOpen(before[call.image_path])
    /\ LET image == before[call.image_path]
           chars == Candidate(image)
       IN  \E j \in 1..Len(chars) :
             /\ IsFirstDelimiter(chars, j)
             /\ j > 3 /\ j < Len(chars)
             /\ EndsWithDelimiter(chars, j + 1)
             /\ ReturnedStr(SubSeq(chars, 1, j - 3))
             /\ Refill(image, 8 * j, "flipped") # image

(***************************************************************************)
(* Images that nobody encoded: low bits that spell a given text, with or   *)
(* without a delimiter, read by decode_image.                              *)
(***************************************************************************)
\* Longest text spelled by an image's low bits.
MaxText == 4

\* '#', 'a' (printable) and '\xc8' (not printable)
TextAlphabet == {35, 97, 200}

Texts == SeqsUpTo(TextAlphabet, MaxText)

\* A one-row RGB image of just enough pixels whose low bits are the bits of the
\* text, most significant first, then zeros.
ImageOfText(text) ==
    LET pixels == IF text = <<>> THEN 1 ELSE CeilDiv(8 * Len(text), 3)
    IN  MkImage("RGB", pixels, 1,
                [p \in 1..pixels |->
                    [i \in 1..3 |->
                        LET k == 3 * (p - 1) + (i - 1)
                        IN  2 * ((7 * p + 3 * i) % 128)
                            + (IF k < 8 * Len(text) THEN StreamBit(text, k) ELSE 0)]],
                <<>>)

InitText ==
    /\ \E text \in Texts :
          fs = [p \in Paths |-> IF p = "carrier" THEN ImageOfText(text) ELSE NoFile]
    /\ call = Call("none", "", <<>>, "", <<>>)
    /\ ret = PyNone
    /\ stdout = <<>>
    /\ before = fs
    /\ last_encode = NoEncode
    /\ encodes = 0

NextText == \E image_path \in Paths : DecodeImage(image_path)

SpecText == InitText /\ [][NextText]_vars

\* C15: when the characters decode_image reads hold no delimiter, it returns
\* their printable subset (code points 32-126) if they are more than 2 and at
\* least half of them are printable, and None otherwise.
C15_FallbackAtLeastHalf ==
    (/\ Returned("decode_image") /\ CanOpen(before[call.image_path])
     /\ Len(LsbStream(before[call.image_path])) >= 8) =>
        LET chars == Candidate(before[call.image_path])
            printable_chars == SelectSeq(chars, IsPrintable)
        IN  (\A j \in 1..Len(chars) : ~EndsWithDelimiter(chars, j)) =>
              IF Len(chars) > 2 /\ 2 * Len(printable_chars) >= Len(chars)
              THEN ReturnedStr(printable_chars)
              ELSE ret.kind = "None"

(***************************************************************************)
(* The page of src/app.py: one run of the script stages the uploaded image *)
(* in a temporary file for each codec call it makes.                       *)
(***************************************************************************)
\* f"data/steganography/temp_upload_{uploaded_file.name}", ...temp_decode_...,
\* and os.path.join('data/steganography', output_filename)
TempUpload == "temp_upload_image.png"
TempDecode == "temp_decode_image.png"
OutputPath == "encoded_image.png"

TempPaths == {TempUpload, TempDecode}
UIPaths == TempPaths \cup {OutputPath}

\* with open(temp_path, "wb") as f: f.write(uploaded_file.getbuffer())
WriteFile(files, path, content) == [files EXCEPT ![path] = content]

\* os.remove(temp_path)
RemoveFile(files, path) == [files EXCEPT ![path] = NoFile]

\* st.file_uploader(...) when nothing is uploaded.
NoUpload == NoFile

\* app.py 48-68: the capacity expander of the encode tab.
capacity_info(files, uploaded_file) ==
    analyze_image_capacity(WriteFile(files, TempUpload, uploaded_file), TempUpload)

\* app.py 76-151: the "Encode Message into Image" button.
encode_action(files, uploaded_file, message) ==
    IF message = <<>>
    THEN Outcome(files, PyNone, <<>>)
    ELSE encode_image(WriteFile(files, TempUpload, uploaded_file),
                      TempUpload, message, OutputPath)

\* app.py 179-238: the "Decode Message" button; the temp file is removed at
\* lines 235-238, after the try block around decode_image.
decode_action(files, uploaded_file) ==
    LET r == decode_image(WriteFile(files, TempDecode, uploaded_file), TempDecode)
    IN  Outcome(RemoveFile(r.fs, TempDecode), r.ret, r.stdout)

Buttons == {"none", "encode", "decode"}

\* One run of the script: the encode tab (lines 38-151), then the decode tab
\* (lines 168-238).  The value is that of the last codec call made.
app(files, enc_upload, message, dec_upload, button) ==
    LET none == Outcome(files, PyNone, <<>>)
        shown == IF enc_upload # NoUpload THEN capacity_info(files, enc_upload) ELSE none
        encoded == IF enc_upload # NoUpload /\ button = "encode"
                   THEN encode_action(shown.fs, enc_upload, message)
                   ELSE Outcome(shown.fs, shown.ret, <<>>)
        decoded == IF dec_upload # NoUpload /\ button = "decode"
                   THEN decode_action(encoded.fs, dec_upload)
                   ELSE Outcome(encoded.fs, encoded.ret, <<>>)
    IN  Outcome(decoded.fs, decoded.ret,
                shown.stdout \o encoded.stdout \o decoded.stdout)

\* Images a user uploads: Image.open(uploaded_file) at lines 40 and 170 has
\* succeeded before any temporary file is written.
Uploads == {RGBImage(<<4, 2>>, "ramp"), GrayImage(<<2, 7>>, "ramp")}

\* '', 'a', 'hi'
UIMessages == {<<>>, <<97>>, <<104, 105>>}

\* The run calls encode_image.
UIRunsEncode(enc_upload, message, button) ==
    enc_upload # NoUpload /\ button = "encode" /\ message # <<>>

AppRun(enc_upload, message, dec_upload, button) ==
    /\ UIRunsEncode(enc_upload, message, button) => encodes < MaxEncodes
    /\ \E r \in {app(fs, enc_upload, message, dec_upload, button)} :
          /\ Finish(Call("app", "", message, OutputPath, <<button>>), r)
          /\ IF UIRunsEncode(enc_upload, message, button)
             THEN /\ encodes' = encodes + 1
                  /\ last_encode' =
                        Encoded(WriteFile(fs, TempUpload, enc_upload), TempUpload,
                                message, OutputPath,
                                HasLine(r.stdout, "Message encoded successfully"))
             ELSE UNCHANGED <<last_encode, encodes>>

InitUI ==
    /\ fs = [p \in UIPaths |-> NoFile]
    /\ call = Call("none", "", <<>>, "", <<>>)
    /\ ret = PyNone
    /\ stdout = <<>>
    /\ before = fs
    /\ last_encode = NoEncode
    /\ encodes = 0

\* The decode tab is given an image of the user's or the one encoded earlier.
NextUI ==
    \E enc_upload \in Uploads \cup {NoUpload}, message \in UIMessages,
       dec_upload \in Uploads \cup {NoUpload, fs[OutputPath]}, button \in Buttons :
        AppRun(enc_upload, message, dec_upload, button)

\* The script runs again at every interaction with the page.
SpecUI == InitUI /\ [][NextUI]_vars /\ WF_vars(NextUI)

\* C16: every temporary file the page creates to stage an uploaded image is
\* eventually removed.
C16_TempFilesRemoved ==
    \A p \in TempPaths : [](fs[p] # NoFile => <>(fs[p] = NoFile))

====
